---- MODULE Spec2Model ----
(***************************************************************************)
(* Model of the jobmatch-agent core (src/src/agent.py): the extraction ->  *)
(* scoring -> advice pipeline of run_jobmatch_agent and the pure scorer    *)
(* _compute_match.                                                         *)
(*                                                                         *)
(* Conventions                                                             *)
(*  - a Python str is a sequence of character codes (ASCII);               *)
(*  - an Optional value is the empty sequence (None) or <<value>>;         *)
(*  - a Python float is kept exactly, as the natural number x * 2^75       *)
(*    written in limbs of 15 bits (least significant first); every float   *)
(*    operation rounds to 53 significant bits, ties to even, as IEEE-754   *)
(*    binary64 does;                                                       *)
(*  - a fraction rounded by round(x, 3) is kept as its number of           *)
(*    thousandths (1000 is 1.0).                                           *)
(***************************************************************************)
EXTENDS Integers, Sequences, FiniteSets, TLC

VARIABLES pc, jd_text, resume_text, jd_info, resume_info, match_info,
          advice, result, error, calls, hash_seed, before

vars == <<pc, jd_text, resume_text, jd_info, resume_info, match_info,
          advice, result, error, calls, hash_seed, before>>

None == <<>>
Some(x) == <<x>>

-----------------------------------------------------------------------------
(* Bounds of the model.                                                    *)

\* longest required_skills list of a scored JD record
MaxReq == 2
\* longest nice_to_have_skills list of a scored JD record
MaxNice == 4
\* longest skills list of a scored resume record
MaxSkills == 2
\* longest tools list of a scored resume record
MaxTools == 1
\* number of distinct iteration orders of a Python set that are modelled
NumSeeds == 2
\* number of distinct raw texts a caller may pass
NumTexts == 2

-----------------------------------------------------------------------------
(* Python str operations.                                                  *)

\* str.lower() on ASCII: 'A'..'Z' become 'a'..'z'
Lower(s) == [i \in 1..Len(s) |-> IF s[i] >= 65 /\ s[i] <= 90 THEN s[i] + 32 ELSE s[i]]

IsSpace(c) == c = 32 \/ (c >= 9 /\ c <= 13)

RECURSIVE LStrip(_)
LStrip(s) == IF s # <<>> /\ IsSpace(Head(s)) THEN LStrip(Tail(s)) ELSE s

RECURSIVE RStrip(_)
RStrip(s) ==
  IF s # <<>> /\ IsSpace(s[Len(s)]) THEN RStrip(SubSeq(s, 1, Len(s) - 1)) ELSE s

\* str.strip()
Strip(s) == RStrip(LStrip(s))

\* a < b on str: lexicographic by code point
RECURSIVE StrLess(_, _)
StrLess(a, b) ==
  IF b = <<>> THEN FALSE
  ELSE IF a = <<>> THEN TRUE
  ELSE IF Head(a) # Head(b) THEN Head(a) < Head(b)
  ELSE StrLess(Tail(a), Tail(b))

\* {s.lower() for s in l}
LowerSet(l) == {Lower(l[i]) : i \in 1..Len(l)}

\* one iteration order of a set of str.  CPython iterates a set in hash
\* order, which for str changes with the process' hash seed: the order is
\* modelled as the descending order rotated by the seed.
RECURSIVE Descending(_)
Descending(S) ==
  IF S = {} THEN <<>>
  ELSE LET m == CHOOSE x \in S : \A y \in S : ~StrLess(x, y)
       IN <<m>> \o Descending(S \ {m})

SetIter(S, seed) ==
  LET d == Descending(S)
      n == Len(d)
      k == IF n = 0 THEN 0 ELSE seed % n
  IN SubSeq(d, k + 1, n) \o SubSeq(d, 1, k)

\* insertion of x into the ascending list l
RECURSIVE Insert(_, _)
Insert(x, l) ==
  IF l = <<>> THEN <<x>>
  ELSE IF StrLess(x, Head(l)) THEN <<x>> \o l
  ELSE <<Head(l)>> \o Insert(x, Tail(l))

RECURSIVE SortIter(_)
SortIter(l) == IF l = <<>> THEN <<>> ELSE Insert(Head(l), SortIter(Tail(l)))

\* the scorer without its sort: the set in iteration order
UnsortedList(l) == l

\* sorted(iterable)
sorted(l) == SortIter(l)

-----------------------------------------------------------------------------
(* Natural numbers of any size, in limbs of 15 bits, least significant      *)
(* first, without leading zero limbs.                                       *)

Base == 2^15
RECURSIVE BigNorm(_)
BigNorm(x) ==
  IF x # <<>> /\ x[Len(x)] = 0 THEN BigNorm(SubSeq(x, 1, Len(x) - 1)) ELSE x

RECURSIVE BigAddC(_, _, _)
BigAddC(x, y, c) ==
  IF x = <<>> /\ y = <<>> THEN (IF c = 0 THEN <<>> ELSE <<c>>)
  ELSE LET a == IF x = <<>> THEN 0 ELSE Head(x)
           b == IF y = <<>> THEN 0 ELSE Head(y)
           s == a + b + c
       IN <<s % Base>> \o BigAddC(IF x = <<>> THEN x ELSE Tail(x),
                                  IF y = <<>> THEN y ELSE Tail(y),
                                  s \div Base)

BigAdd(x, y) == BigNorm(BigAddC(x, y, 0))

\* x * k + c for a small k < Base
RECURSIVE BigMulSmallC(_, _, _)
BigMulSmallC(x, k, c) ==
  IF x = <<>> THEN (IF c = 0 THEN <<>> ELSE <<c>>)
  ELSE LET p == Head(x) * k + c
       IN <<p % Base>> \o BigMulSmallC(Tail(x), k, p \div Base)

BigMulSmall(x, k) == BigNorm(BigMulSmallC(x, k, 0))

RECURSIVE BigMul(_, _)
BigMul(x, y) ==
  IF x = <<>> \/ y = <<>> THEN <<>>
  ELSE BigAdd(BigMulSmall(y, Head(x)), BigNorm(<<0>> \o BigMul(Tail(x), y)))

\* quotient and remainder of x by a small d < Base
RECURSIVE BigDivSmallR(_, _)
BigDivSmallR(x, d) ==
  IF x = <<>> THEN [q |-> <<>>, r |-> 0]
  ELSE LET hi == BigDivSmallR(Tail(x), d)
           cur == hi.r * Base + Head(x)
       IN [q |-> <<cur \div d>> \o hi.q, r |-> cur % d]

BigDivSmall(x, d) ==
  LET qr == BigDivSmallR(x, d) IN [q |-> BigNorm(qr.q), r |-> qr.r]

Zeros(k) == [i \in 1..k |-> 0]

BigIsZero(x) == \A i \in 1..Len(x) : x[i] = 0

\* x < y
RECURSIVE BigLess(_, _)
BigLess(x, y) ==
  IF Len(x) # Len(y) THEN Len(x) < Len(y)
  ELSE IF x = <<>> THEN FALSE
  ELSE IF x[Len(x)] # y[Len(y)] THEN x[Len(x)] < y[Len(y)]
  ELSE BigLess(BigNorm(SubSeq(x, 1, Len(x) - 1)), BigNorm(SubSeq(y, 1, Len(y) - 1)))

RECURSIVE Bits(_)
Bits(n) == IF n = 0 THEN 0 ELSE 1 + Bits(n \div 2)

BigBitLen(x) == IF x = <<>> THEN 0 ELSE 15 * (Len(x) - 1) + Bits(x[Len(x)])

-----------------------------------------------------------------------------
(* IEEE-754 binary64 arithmetic on floats kept as x * 2^75.                 *)

\* q (with sticky: the exact value lies strictly above q) rounded to 53
\* significant bits, ties to even
RoundToDouble(q, sticky) ==
  LET L == BigBitLen(q) IN
  IF L <= 53 THEN q
  ELSE LET t == L - 54
           k == t \div 15
           j == t % 15
           low == SubSeq(q, 1, k)
           d1 == BigDivSmall(SubSeq(q, k + 1, Len(q)), 2^j)
           st == sticky \/ ~BigIsZero(low) \/ d1.r # 0
           d2 == BigDivSmall(d1.q, 2)
           m == d2.q
           up == d2.r = 1 /\ (st \/ m[1] % 2 = 1)
           m2 == IF up THEN BigAdd(m, <<1>>) ELSE m
       IN BigNorm(Zeros(k) \o BigMulSmall(BigMulSmall(m2, 2^j), 2))

\* the float of a small natural number
FloatOfInt(n) == IF n = 0 THEN <<>> ELSE Zeros(5) \o <<n>>

\* a / b on Python ints (true division, correctly rounded), 0 <= a, 0 < b
FDiv(a, b) ==
  LET d == BigDivSmall(FloatOfInt(a), b) IN RoundToDouble(d.q, d.r # 0)

\* x * y on floats
FMul(x, y) ==
  LET p == BigMul(x, y)
  IN IF Len(p) <= 5 THEN <<>>
     ELSE RoundToDouble(SubSeq(p, 5 + 1, Len(p)),
                        ~BigIsZero(SubSeq(p, 1, 5)))

\* x + y on floats
FAdd(x, y) == RoundToDouble(BigAdd(x, y), FALSE)

\* the literals 0.7, 0.3 and the int 100 converted to float
Float07 == <<0, 13056, 26214, 19660, 22937>>
Float03 == <<0, 19648, 6553, 13107, 9830>>
Float100 == FloatOfInt(100)
Float1 == FloatOfInt(1)

\* the integer nearest to x * 2^-75, ties to even (x below 2^15 * 2^75)
RoundHalfEvenScaled(x) ==
  LET i == IF Len(x) > 5 THEN x[5 + 1] ELSE 0
      f == BigNorm(SubSeq(x, 1, IF Len(x) > 5 THEN 5 ELSE Len(x)))
      h == Zeros(5 - 1) \o <<Base \div 2>>
  IN IF BigLess(h, f) \/ (f = h /\ i % 2 = 1) THEN i + 1 ELSE i

\* round(x) on a float: an int, ties to even
PyRound(x) == RoundHalfEvenScaled(x)

\* round(x, 3) on a float, as a number of thousandths: the decimal with 3
\* places nearest to the exact value of x, ties to even
PyRound3(x) == RoundHalfEvenScaled(BigMulSmall(x, 1000))

-----------------------------------------------------------------------------
(* Data structures.                                                        *)

JDInfo(title, company, location, required_skills, nice_to_have_skills, responsibilities, keywords) ==
  [title |-> title, company |-> company, location |-> location,
   required_skills |-> required_skills,
   nice_to_have_skills |-> nice_to_have_skills,
   responsibilities |-> responsibilities, keywords |-> keywords]

ResumeInfo(name, headline, skills, tools) ==
  [name |-> name, headline |-> headline, skills |-> skills, tools |-> tools]

-----------------------------------------------------------------------------
(* Matching logic.                                                         *)

\* an empty list counted as nothing matched
ZeroWhenEmpty(n_matched, n_whole) ==
  IF n_whole # 0 THEN FDiv(n_matched, n_whole) ELSE <<>>

\* the fraction of the missing skills instead of the matched ones
MissingFraction(n_matched, n_whole) ==
  IF n_whole # 0 THEN FDiv(n_whole - n_matched, n_whole) ELSE Float1

\* len(matched) / len(whole) if whole else 1.0
MatchFraction(n_matched, n_whole) ==
  IF n_whole # 0 THEN FDiv(n_matched, n_whole) ELSE Float1

\* round((required_score * 0.7 + nice_score * 0.3) * 100)
WeightedScore(required_score, nice_score) ==
  PyRound(FMul(FAdd(FMul(required_score, Float07), FMul(nice_score, Float03)),
               Float100))

\* the three numbers of a match, by the sizes of the four sets
MatchNumbers(n_mreq, n_req, n_mnice, n_nice) ==
  LET required_score == MatchFraction(n_mreq, n_req)
      nice_score == MatchFraction(n_mnice, n_nice)
  IN [overall_score |-> WeightedScore(required_score, nice_score),
      required_match_fraction |-> PyRound3(required_score),
      nice_to_have_match_fraction |-> PyRound3(nice_score)]

\* MatchNumbers over the sizes the model reaches, evaluated once
NumbersTable ==
  {<<k, MatchNumbers(k[1], k[2], k[3], k[4])>> :
     k \in {s \in (0..MaxReq) \X (0..MaxReq) \X (0..MaxNice) \X (0..MaxNice) :
              s[1] <= s[2] /\ s[3] <= s[4]}}

Numbers(n_mreq, n_req, n_mnice, n_nice) ==
  LET k == <<n_mreq, n_req, n_mnice, n_nice>>
  IN IF \E p \in NumbersTable : p[1] = k
     THEN (CHOOSE p \in NumbersTable : p[1] = k)[2]
     ELSE MatchNumbers(n_mreq, n_req, n_mnice, n_nice)

_compute_match(jd, resume, seed) ==
  LET resume_skillset == LowerSet(resume.skills \o resume.tools)
      required == LowerSet(jd.required_skills)
      nice == LowerSet(jd.nice_to_have_skills)
      matched_required == sorted(SetIter(required \cap resume_skillset, seed))
      missing_required == sorted(SetIter(required \ resume_skillset, seed))
      matched_nice == sorted(SetIter(nice \cap resume_skillset, seed))
      missing_nice == sorted(SetIter(nice \ resume_skillset, seed))
      n == Numbers(Len(matched_required), Cardinality(required),
                   Len(matched_nice), Cardinality(nice))
  IN [overall_score |-> n.overall_score,
      required_match_fraction |-> n.required_match_fraction,
      nice_to_have_match_fraction |-> n.nice_to_have_match_fraction,
      matched_required_skills |-> matched_required,
      missing_required_skills |-> missing_required,
      matched_nice_to_have |-> matched_nice,
      missing_nice_to_have |-> missing_nice]

-----------------------------------------------------------------------------
(* The scorer on its own: records drawn from bounded lists, scored, and    *)
(* scored again after a skill is added to the resume.                      *)

\* "sql", "Go", "go"
ReqPool == <<(<<115, 113, 108>>), (<<71, 111>>), (<<103, 111>>)>>
\* "R", "sql", "Go", "c", "go"
NicePool == <<(<<82>>), (<<115, 113, 108>>), (<<71, 111>>), (<<99>>), (<<103, 111>>)>>
\* "GO", "C", "r", "SQL"
SkillPool == <<(<<71, 79>>), (<<67>>), (<<114>>), (<<83, 81, 76>>)>>
\* "sql", "K8s"
ToolPool == <<(<<115, 113, 108>>), (<<75, 56, 115>>)>>

\* the elements of pool at the indices I, in the pool's order
RECURSIVE Pick(_, _)
Pick(pool, I) ==
  IF I = {} THEN <<>>
  ELSE LET i == CHOOSE x \in I : \A y \in I : x <= y
       IN <<pool[i]>> \o Pick(pool, I \ {i})

ListsOf(pool, max) ==
  {Pick(pool, I) : I \in {J \in SUBSET (1..Len(pool)) : Cardinality(J) <= max}}

ScoredJDs ==
  {JDInfo(<<>>, <<>>, <<>>, r, n, <<>>, <<>>) :
     r \in ListsOf(ReqPool, MaxReq), n \in ListsOf(NicePool, MaxNice)}

ScoredResumes ==
  {ResumeInfo(<<>>, <<>>, s, t) :
     s \in ListsOf(SkillPool, MaxSkills), t \in ListsOf(ToolPool, MaxTools)}

ScoreInit ==
  /\ pc = "score_input"
  /\ jd_text = 1
  /\ resume_text = 1
  /\ jd_info \in {Some(j) : j \in ScoredJDs}
  /\ resume_info \in {Some(r) : r \in ScoredResumes}
  /\ match_info = None
  /\ advice = None
  /\ result = None
  /\ error = None
  /\ calls = <<>>
  /\ hash_seed \in 0..(NumSeeds - 1)
  /\ before = None

\* match_info = _compute_match(jd_info, resume_info)
Score ==
  /\ pc = "score_input"
  /\ match_info' = Some(_compute_match(jd_info[1], resume_info[1], hash_seed))
  /\ pc' = "scored"
  /\ UNCHANGED <<jd_text, resume_text, jd_info, resume_info, advice, result,
                 error, calls, hash_seed, before>>

\* the same JD scored against the resume with one more skill
AddSkill ==
  /\ pc = "scored"
  /\ Len(resume_info[1].skills) < MaxSkills
  /\ \E i \in 1..Len(SkillPool) :
       LET more == [resume_info[1] EXCEPT !.skills = Append(@, SkillPool[i])]
       IN /\ resume_info' = Some(more)
          /\ match_info' = Some(_compute_match(jd_info[1], more, hash_seed))
  /\ before' = match_info
  /\ UNCHANGED <<pc, jd_text, resume_text, jd_info, advice, result, error,
                 calls, hash_seed>>

ScoreNext == Score \/ AddSkill

SpecScore == ScoreInit /\ [][ScoreNext]_vars

-----------------------------------------------------------------------------
(* JSON values, as json.loads returns them.  A value is a record with its   *)
(* type t, the characters s of a str and the items l of a list; an item of  *)
(* a list is a str, a number or null.  A key that the object does not hold  *)
(* maps to JAbsent.                                                         *)

JAbsent == [t |-> "absent", s |-> <<>>, l |-> <<>>]
JNull == [t |-> "null", s |-> <<>>, l |-> <<>>]
JNum == [t |-> "num", s |-> <<>>, l |-> <<>>]
JStr(chars) == [t |-> "str", s |-> chars, l |-> <<>>]
JList(items) == [t |-> "list", s |-> <<>>, l |-> items]
ItemStr(chars) == [t |-> "str", s |-> chars]
ItemNum == [t |-> "num", s |-> <<>>]
ItemNull == [t |-> "null", s |-> <<>>]

\* the outcome of a Python call: the exception it raises, or its value
Raise(exc) == [exc |-> exc, val |-> None]
Return(v) == [exc |-> "", val |-> Some(v)]

\* data.get(key, default)
DictGet(data, key, default) == IF data[key].t = "absent" THEN default ELSE data[key]

\* the str field as it came, not stripped
StrFieldUntrimmed(data, key) ==
  LET v == DictGet(data, key, JStr(<<>>))
  IN IF v.t = "str" THEN Return(v.s) ELSE Raise("AttributeError")

\* data.get(key, "").strip()
StrField(data, key) ==
  LET v == DictGet(data, key, JStr(<<>>))
  IN IF v.t = "str" THEN Return(Strip(v.s)) ELSE Raise("AttributeError")

\* [s.strip() for s in data.get(key, [])]
ListField(data, key) ==
  LET v == DictGet(data, key, JList(<<>>))
  IN IF v.t = "list"
     THEN IF \E i \in 1..Len(v.l) : v.l[i].t # "str"
          THEN Raise("AttributeError")
          ELSE Return([i \in 1..Len(v.l) |-> Strip(v.l[i].s)])
     ELSE IF v.t = "str"
     THEN Return([i \in 1..Len(v.s) |-> Strip(<<v.s[i]>>)])
     ELSE Raise("TypeError")

\* the exception of the first outcome that raises, "" when none does
RECURSIVE FirstExc(_)
FirstExc(outcomes) ==
  IF outcomes = <<>> THEN ""
  ELSE IF Head(outcomes).exc # "" THEN Head(outcomes).exc
  ELSE FirstExc(Tail(outcomes))

-----------------------------------------------------------------------------
(* LLM helper functions.  A reply of the service is what                    *)
(* client.chat.completions.create does: it raises, or returns a message     *)
(* whose content is text that is not JSON, or the text of a JSON object     *)
(* (kept parsed, in obj).                                                   *)

\* json.loads(content)
json_loads(reply) ==
  IF reply.kind = "garbage" THEN Raise("JSONDecodeError")
  ELSE Return(reply.obj)

_call_llm_json(reply) ==
  IF reply.kind = "raise" THEN Raise("openai.APIError") ELSE json_loads(reply)

_extract_jd_info(reply) ==
  LET data == _call_llm_json(reply) IN
  IF data.exc # "" THEN data
  ELSE LET d == data.val[1]
           title == StrField(d, "title")
           company == StrField(d, "company")
           location == StrField(d, "location")
           required_skills == ListField(d, "required_skills")
           nice_to_have_skills == ListField(d, "nice_to_have_skills")
           responsibilities == ListField(d, "responsibilities")
           keywords == ListField(d, "keywords")
           exc == FirstExc(<<title, company, location, required_skills,
                             nice_to_have_skills, responsibilities, keywords>>)
       IN IF exc # "" THEN Raise(exc)
          ELSE Return(JDInfo(title.val[1], company.val[1], location.val[1],
                             required_skills.val[1], nice_to_have_skills.val[1],
                             responsibilities.val[1], keywords.val[1]))

_extract_resume_info(reply) ==
  LET data == _call_llm_json(reply) IN
  IF data.exc # "" THEN data
  ELSE LET d == data.val[1]
           name == StrField(d, "name")
           headline == StrField(d, "headline")
           skills == ListField(d, "skills")
           tools == ListField(d, "tools")
           exc == FirstExc(<<name, headline, skills, tools>>)
       IN IF exc # "" THEN Raise(exc)
          ELSE Return(ResumeInfo(name.val[1], headline.val[1], skills.val[1],
                                 tools.val[1]))

_generate_advice(reply) == _call_llm_json(reply)

-----------------------------------------------------------------------------
(* The replies the service may give.                                        *)

JDKeys == {"title", "company", "location", "required_skills",
           "nice_to_have_skills", "responsibilities", "keywords"}
JDStrKeys == {"title", "company", "location"}
ResumeKeys == {"name", "headline", "skills", "tools"}
ResumeStrKeys == {"name", "headline"}
AdviceKeys == {"tailored_summary", "rewritten_bullets", "skills_to_highlight",
               "skills_to_develop", "overall_score"}

\* a JD object with every key:
\* {"title": " Dev ", "company": "Co", "location": "Remote\n",
\*  "required_skills": [" Go ", "sql"], "nice_to_have_skills": ["K8s"],
\*  "responsibilities": ["ship "], "keywords": ["api"]}
JDFull ==
  [k \in JDKeys |->
     CASE k = "title" -> JStr(<<32, 68, 101, 118, 32>>)
       [] k = "company" -> JStr(<<67, 111>>)
       [] k = "location" -> JStr(<<82, 101, 109, 111, 116, 101, 10>>)
       [] k = "required_skills" ->
            JList(<<ItemStr(<<32, 71, 111, 32>>), ItemStr(<<115, 113, 108>>)>>)
       [] k = "nice_to_have_skills" -> JList(<<ItemStr(<<75, 56, 115>>)>>)
       [] k = "responsibilities" -> JList(<<ItemStr(<<115, 104, 105, 112, 32>>)>>)
       [] k = "keywords" -> JList(<<ItemStr(<<97, 112, 105>>)>>)]

\* a resume object with every key:
\* {"name": " Al", "headline": "SWE", "skills": ["go ", "C"], "tools": ["SQL"]}
ResumeFull ==
  [k \in ResumeKeys |->
     CASE k = "name" -> JStr(<<32, 65, 108>>)
       [] k = "headline" -> JStr(<<83, 87, 69>>)
       [] k = "skills" -> JList(<<ItemStr(<<103, 111, 32>>), ItemStr(<<67>>)>>)
       [] k = "tools" -> JList(<<ItemStr(<<83, 81, 76>>)>>)]

\* values of a type the schema does not ask for
WrongForStr == {JNull, JNum, JList(<<>>)}
\* null, a number, the str "a b", [5], ["x", null]
WrongForList ==
  {JNull, JNum, JStr(<<97, 32, 98>>), JList(<<ItemNum>>),
   JList(<<ItemStr(<<120>>), ItemNull>>)}

\* the objects with any subset of the keys absent
WithAbsentKeys(full) ==
  {[k \in DOMAIN full |-> IF k \in P THEN full[k] ELSE JAbsent] :
     P \in SUBSET (DOMAIN full)}

\* the objects with one key of an unexpected type
WithWrongType(full, strKeys) ==
  {[full EXCEPT ![k] = v] : k \in strKeys, v \in WrongForStr}
    \cup {[full EXCEPT ![k] = v] : k \in (DOMAIN full) \ strKeys, v \in WrongForList}

JDObjects == WithAbsentKeys(JDFull) \cup WithWrongType(JDFull, JDStrKeys)
ResumeObjects == WithAbsentKeys(ResumeFull) \cup WithWrongType(ResumeFull, ResumeStrKeys)

\* advice objects: complete, and with fields missing and a score of its own
AdviceComplete ==
  [k \in AdviceKeys |->
     CASE k = "tailored_summary" -> JStr(<<111, 107>>)
       [] k = "rewritten_bullets" -> JList(<<ItemStr(<<98, 49>>), ItemStr(<<98, 50>>)>>)
       [] k = "skills_to_highlight" -> JList(<<ItemStr(<<103, 111>>)>>)
       [] k = "skills_to_develop" -> JList(<<ItemStr(<<107, 56, 115>>)>>)
       [] k = "overall_score" -> JAbsent]

AdviceObjects ==
  {AdviceComplete,
   [AdviceComplete EXCEPT !["rewritten_bullets"] = JAbsent,
                          !["skills_to_develop"] = JAbsent,
                          !["overall_score"] = JNum]}

Replies(objects) ==
  {[kind |-> k, obj |-> CHOOSE o \in objects : TRUE] : k \in {"raise", "garbage"}}
    \cup {[kind |-> "json", obj |-> o] : o \in objects}

-----------------------------------------------------------------------------
(* Public entry point: run_jobmatch_agent, cut where it waits for the       *)
(* service.                                                                 *)

Call(fn) == [fn |-> fn, replied |-> FALSE, kind |-> "", obj |-> <<>>]

\* the log of calls with the reply to the pending (last) one recorded
Replied(log, reply) ==
  [log EXCEPT ![Len(log)] =
     [fn |-> @.fn, replied |-> TRUE, kind |-> reply.kind,
      obj |-> IF reply.kind = "json" THEN Some(reply.obj) ELSE None]]

Init ==
  /\ pc = "start"
  /\ jd_text \in 1..NumTexts
  /\ resume_text \in 1..NumTexts
  /\ jd_info = None
  /\ resume_info = None
  /\ match_info = None
  /\ advice = None
  /\ result = None
  /\ error = None
  /\ calls = <<>>
  /\ hash_seed \in 0..(NumSeeds - 1)
  /\ before = None

\* the failure swallowed: what there is so far returned as the result
ReturnPartial(exc, reply) ==
  /\ pc' = "done"
  /\ error' = Some(exc)
  /\ calls' = Replied(calls, reply)
  /\ result' = Some([jd |-> jd_info, resume |-> resume_info,
                     match |-> match_info, advice |-> None])
  /\ UNCHANGED <<jd_text, resume_text, jd_info, resume_info, match_info,
                 advice, hash_seed, before>>

\* an exception leaves run_jobmatch_agent: nothing is returned
Propagate(exc, reply) ==
  /\ pc' = "failed"
  /\ error' = Some(exc)
  /\ calls' = Replied(calls, reply)
  /\ UNCHANGED <<jd_text, resume_text, jd_info, resume_info, match_info,
                 advice, result, hash_seed, before>>

\* the advice's own score, when it has one, taken over into the match
ResultWithAdviceScore(jd, resume, match, adv) ==
  [jd |-> jd, resume |-> resume,
   match |-> IF adv["overall_score"].t = "num"
             THEN [match EXCEPT !.overall_score = 0] ELSE match,
   advice |-> adv]

\* the dict run_jobmatch_agent returns
RunResult(jd, resume, match, adv) ==
  [jd |-> jd, resume |-> resume, match |-> match, advice |-> adv]

\* run_jobmatch_agent is entered and calls the service for the JD
Begin ==
  /\ pc = "start"
  /\ pc' = "jd_wait"
  /\ calls' = Append(calls, Call("jd"))
  /\ UNCHANGED <<jd_text, resume_text, jd_info, resume_info, match_info,
                 advice, result, error, hash_seed, before>>

\* the JD call ends: jd_info = _extract_jd_info(jd_text), then the resume call
JDReply ==
  /\ pc = "jd_wait"
  /\ \E reply \in Replies(JDObjects) :
       LET r == _extract_jd_info(reply) IN
       IF r.exc # "" THEN Propagate(r.exc, reply)
       ELSE /\ jd_info' = r.val
            /\ pc' = "resume_wait"
            /\ calls' = Append(Replied(calls, reply), Call("resume"))
            /\ UNCHANGED <<jd_text, resume_text, resume_info, match_info,
                           advice, result, error, hash_seed, before>>

\* the resume call ends: resume_info = _extract_resume_info(resume_text),
\* match_info = _compute_match(jd_info, resume_info), then the advice call
ResumeReply ==
  /\ pc = "resume_wait"
  /\ \E reply \in Replies(ResumeObjects) :
       LET r == _extract_resume_info(reply) IN
       IF r.exc # "" THEN Propagate(r.exc, reply)
       ELSE /\ resume_info' = r.val
            /\ match_info' = Some(_compute_match(jd_info[1], r.val[1], hash_seed))
            /\ pc' = "advice_wait"
            /\ calls' = Append(Replied(calls, reply), Call("advice"))
            /\ UNCHANGED <<jd_text, resume_text, jd_info, advice, result,
                           error, hash_seed, before>>

\* the advice call ends: advice = _generate_advice(...), then the return
AdviceReply ==
  /\ pc = "advice_wait"
  /\ \E reply \in Replies(AdviceObjects) :
       LET r == _generate_advice(reply) IN
       IF r.exc # "" THEN Propagate(r.exc, reply)
       ELSE /\ advice' = r.val
            /\ result' = Some(RunResult(jd_info[1], resume_info[1],
                                        match_info[1], r.val[1]))
            /\ pc' = "done"
            /\ calls' = Replied(calls, reply)
            /\ UNCHANGED <<jd_text, resume_text, jd_info, resume_info,
                           match_info, error, hash_seed, before>>

Next == Begin \/ JDReply \/ ResumeReply \/ AdviceReply

Spec == Init /\ [][Next]_vars

\* the interpreter runs the code of run_jobmatch_agent; nothing makes the
\* service reply
FairSpec == Spec /\ WF_vars(Begin)

-----------------------------------------------------------------------------
(* Properties.                                                             *)

Range(l) == {l[i] : i \in 1..Len(l)}

Abs(x) == IF x < 0 THEN -x ELSE x

\* the sizes of the four sets of a match, from the records alone
RequiredSet == LowerSet(jd_info[1].required_skills)
NiceSet == LowerSet(jd_info[1].nice_to_have_skills)
ResumeSet == LowerSet(resume_info[1].skills \o resume_info[1].tools)

\* 70*r + 30*n as the exact fraction ExactNum / ExactDen
ExactDen ==
  (IF RequiredSet = {} THEN 1 ELSE Cardinality(RequiredSet))
    * (IF NiceSet = {} THEN 1 ELSE Cardinality(NiceSet))
ExactNum ==
  70 * (IF RequiredSet = {} THEN 1 ELSE Cardinality(RequiredSet \cap ResumeSet))
     * (IF NiceSet = {} THEN 1 ELSE Cardinality(NiceSet))
  + 30 * (IF NiceSet = {} THEN 1 ELSE Cardinality(NiceSet \cap ResumeSet))
       * (IF RequiredSet = {} THEN 1 ELSE Cardinality(RequiredSet))

\* the nearest integer to num / den, a tie going to the even one
NearestHalfEven(num, den) ==
  LET q == num \div den
      r == num % den
  IN IF 2 * r > den \/ (2 * r = den /\ q % 2 = 1) THEN q + 1 ELSE q

\* the nearest integer to num / den, a tie going up
NearestHalfUp(num, den) ==
  LET q == num \div den
      r == num % den
  IN IF 2 * r >= den THEN q + 1 ELSE q

\* C1: overall_score is the integer nearest to 70*r + 30*n over the exact
\* fractions r and n (either way of breaking a tie that the specification
\* allows, to even or up, is accepted), and lies in 0..100.
C1_ScoreIsNearestInteger ==
  pc = "scored" =>
    /\ match_info[1].overall_score \in 0..100
    /\ match_info[1].overall_score
         \in {NearestHalfEven(ExactNum, ExactDen), NearestHalfUp(ExactNum, ExactDen)}

\* what does hold of the score: it is within 1/2 of 70*r + 30*n and in 0..100
ScoreWithinHalf ==
  pc = "scored" =>
    /\ match_info[1].overall_score \in 0..100
    /\ 2 * Abs(match_info[1].overall_score * ExactDen - ExactNum) <= ExactDen

\* the score of a tie is below both roundings of the exact value
ScoreBelowTie ==
  /\ pc = "scored"
  /\ 2 * (ExactNum % ExactDen) = ExactDen
  /\ match_info[1].overall_score = ExactNum \div ExactDen
  /\ (ExactNum \div ExactDen) % 2 = 1

\* C2: an empty required_skills list gives required_match_fraction 1.0 for
\* every resume and puts its full weight, 70, into overall_score (the rest
\* of the score is 30*n to within a half); an empty nice_to_have_skills list
\* gives nice_to_have_match_fraction 1.0 and its full weight, 30; a JD with
\* both lists empty scores 100.
C2_VacuousTrue ==
  pc = "scored" =>
    LET m == match_info[1]
        nReq == Cardinality(RequiredSet)
        nNice == Cardinality(NiceSet)
        mReq == Cardinality(RequiredSet \cap ResumeSet)
        mNice == Cardinality(NiceSet \cap ResumeSet)
    IN /\ jd_info[1].required_skills = <<>> =>
            /\ m.required_match_fraction = 1000
            /\ m.overall_score >= 70
            /\ nNice # 0 => 2 * Abs((m.overall_score - 70) * nNice - 30 * mNice) <= nNice
       /\ jd_info[1].nice_to_have_skills = <<>> =>
            /\ m.nice_to_have_match_fraction = 1000
            /\ m.overall_score >= 30
            /\ nReq # 0 => 2 * Abs((m.overall_score - 30) * nReq - 70 * mReq) <= nReq
       /\ (jd_info[1].required_skills = <<>> /\ jd_info[1].nice_to_have_skills = <<>>) =>
            m.overall_score = 100

\* a JD without required skills scored 70 against a resume that has skills
\* but none of the nice-to-have ones
C2_Witness ==
  /\ pc = "scored"
  /\ jd_info[1].required_skills = <<>>
  /\ jd_info[1].nice_to_have_skills # <<>>
  /\ resume_info[1].skills # <<>>
  /\ match_info[1].required_match_fraction = 1000
  /\ match_info[1].overall_score = 70

\* a JD with neither list scored 100 against an empty resume
VacuousEmptyResume ==
  /\ pc = "scored"
  /\ jd_info[1].required_skills = <<>>
  /\ jd_info[1].nice_to_have_skills = <<>>
  /\ resume_info[1].skills = <<>>
  /\ resume_info[1].tools = <<>>
  /\ match_info[1].overall_score = 100

IsLowercase(x) == \A i \in 1..Len(x) : ~(x[i] >= 65 /\ x[i] <= 90)

Ascending(l) == \A i \in 1..(Len(l) - 1) : StrLess(l[i], l[i + 1])

\* matched and missing partition the lowercase set of wanted: matched holds
\* the ones whose lowercase form is the lowercase form of a resume entry
PartitionOf(wanted, entries, matched, missing) ==
  LET W == {Lower(x) : x \in Range(wanted)}
      InResume(x) == \E e \in Range(entries) : Lower(e) = x
  IN /\ Range(matched) = {x \in W : InResume(x)}
     /\ Range(missing) = {x \in W : ~InResume(x)}
     /\ Range(matched) \cap Range(missing) = {}
     /\ Cardinality(Range(matched)) = Len(matched)
     /\ Cardinality(Range(missing)) = Len(missing)
     /\ \A x \in Range(matched) \cup Range(missing) : IsLowercase(x)
     /\ Ascending(matched)
     /\ Ascending(missing)

\* C3: matched_required_skills and missing_required_skills partition the
\* lowercase set of the required skills by membership, ignoring case, in
\* resume.skills + resume.tools; both lists are duplicate-free, lowercase
\* and sorted ascending; the same for the nice-to-have lists.
C3_MatchedMissingPartition ==
  pc = "scored" =>
    LET entries == resume_info[1].skills \o resume_info[1].tools
        m == match_info[1]
    IN /\ PartitionOf(jd_info[1].required_skills, entries,
                      m.matched_required_skills, m.missing_required_skills)
       /\ PartitionOf(jd_info[1].nice_to_have_skills, entries,
                      m.matched_nice_to_have, m.missing_nice_to_have)

\* required ["Go", "go"] collapses to "go", matched by the resume's "GO";
\* two nice-to-have skills are matched and one is missing
C3_Witness ==
  /\ pc = "scored"
  /\ jd_info[1].required_skills = <<(<<71, 111>>), (<<103, 111>>)>>
  /\ match_info[1].matched_required_skills = <<(<<103, 111>>)>>
  /\ <<71, 79>> \in Range(resume_info[1].skills)
  /\ Len(match_info[1].matched_nice_to_have) = 2
  /\ match_info[1].missing_nice_to_have # <<>>

\* C10: with one more skill on the resume, overall_score and both fractions
\* do not decrease and every skill still missing was missing before.
C10_MonotoneInResume ==
  (pc = "scored" /\ before # None) =>
    LET b == before[1]
        m == match_info[1]
    IN /\ b.overall_score <= m.overall_score
       /\ b.required_match_fraction <= m.required_match_fraction
       /\ b.nice_to_have_match_fraction <= m.nice_to_have_match_fraction
       /\ Range(m.missing_required_skills) \subseteq Range(b.missing_required_skills)
       /\ Range(m.missing_nice_to_have) \subseteq Range(b.missing_nice_to_have)

\* a skill was added and the score went up
C10_Witness ==
  /\ pc = "scored"
  /\ before # None
  /\ before[1].overall_score < match_info[1].overall_score
  /\ Len(before[1].missing_required_skills) > Len(match_info[1].missing_required_skills)

-----------------------------------------------------------------------------
(* Properties of the pipeline.                                             *)

\* the calls of the run made for fn
CallsOf(fn) == {i \in 1..Len(calls) : calls[i].fn = fn}

\* C4: a reply that is not valid JSON, to any of the three calls, makes the
\* run fail with MalformedResponseError.
C4_MalformedResponseError ==
  \A i \in 1..Len(calls) :
    (calls[i].replied /\ calls[i].kind = "garbage") =>
      (pc = "failed" /\ error = Some("MalformedResponseError"))

\* x is orig without the whitespace at its two ends
TrimOf(x, orig) ==
  /\ x = <<>> \/ (~IsSpace(x[1]) /\ ~IsSpace(x[Len(x)]))
  /\ \E i \in 0..Len(orig) :
       /\ i + Len(x) <= Len(orig)
       /\ x = SubSeq(orig, i + 1, i + Len(x))
       /\ \A j \in (1..i) \cup ((i + Len(x) + 1)..Len(orig)) : IsSpace(orig[j])

\* obj holds, for each key, nothing or a value of the type the schema asks
KeysAbsentOrTyped(obj, strKeys) ==
  \A k \in DOMAIN obj :
    \/ obj[k].t = "absent"
    \/ k \in strKeys /\ obj[k].t = "str"
    \/ k \notin strKeys /\ obj[k].t = "list"
         /\ \A i \in 1..Len(obj[k].l) : obj[k].l[i].t = "str"

\* rec is obj with the absent keys defaulted and the present ones trimmed
DefaultedAndTrimmed(rec, obj, strKeys) ==
  \A k \in DOMAIN obj :
    IF obj[k].t = "absent" THEN rec[k] = <<>>
    ELSE IF k \in strKeys THEN TrimOf(rec[k], obj[k].s)
    ELSE /\ Len(rec[k]) = Len(obj[k].l)
         /\ \A i \in 1..Len(rec[k]) : TrimOf(rec[k][i], obj[k].l[i].s)

\* C5: a JSON object from which any subset of the expected keys is absent
\* never fails the extraction: the absent str fields are "", the absent list
\* fields are [], the present ones are kept trimmed; the run goes on to
\* scoring and the advice call, and returns a result when the advice call
\* returns an object.
C5_MissingKeysDefault ==
  LET jdOk == /\ Len(calls) >= 1 /\ calls[1].replied /\ calls[1].kind = "json"
              /\ KeysAbsentOrTyped(calls[1].obj[1], JDStrKeys)
      resumeOk == /\ Len(calls) >= 2 /\ calls[2].replied /\ calls[2].kind = "json"
                  /\ KeysAbsentOrTyped(calls[2].obj[1], ResumeStrKeys)
  IN /\ jdOk =>
          /\ jd_info # None
          /\ DefaultedAndTrimmed(jd_info[1], calls[1].obj[1], JDStrKeys)
          /\ Len(calls) >= 2 /\ calls[2].fn = "resume"
     /\ (jdOk /\ resumeOk) =>
          /\ resume_info # None
          /\ DefaultedAndTrimmed(resume_info[1], calls[2].obj[1], ResumeStrKeys)
          /\ match_info # None
          /\ Len(calls) = 3 /\ calls[3].fn = "advice"
          /\ (calls[3].replied /\ calls[3].kind = "json") =>
               /\ pc = "done"
               /\ result # None
               /\ result[1].jd = jd_info[1]
               /\ result[1].resume = resume_info[1]

\* the JD reply lacks "location" and "keywords", the resume reply lacks
\* "tools"; the title came out trimmed and the run returned a result
C5_Witness ==
  /\ pc = "done"
  /\ calls[1].obj[1]["location"].t = "absent"
  /\ calls[1].obj[1]["keywords"].t = "absent"
  /\ calls[1].obj[1]["title"].t = "str"
  /\ calls[2].obj[1]["tools"].t = "absent"
  /\ result # None
  /\ result[1].jd.location = <<>>
  /\ result[1].jd.keywords = <<>>
  /\ result[1].jd.title = <<68, 101, 118>>
  /\ result[1].resume.tools = <<>>

\* C6: a failed call is not issued again and fails the run, which returns
\* nothing; the scorer runs and the advice call is issued only after both
\* extractions of the run have succeeded.
C6_FailFast ==
  /\ \A fn \in {"jd", "resume", "advice"} : Cardinality(CallsOf(fn)) <= 1
  /\ \A i \in 1..Len(calls) :
       (calls[i].replied /\ calls[i].kind # "json") =>
         (pc = "failed" /\ i = Len(calls) /\ error # None)
  /\ pc = "failed" => (result = None /\ error # None /\ calls[Len(calls)].replied)
  /\ (match_info # None \/ CallsOf("advice") # {}) =>
       /\ jd_info # None /\ resume_info # None
       /\ Len(calls) >= 2
       /\ calls[1].fn = "jd" /\ calls[1].replied /\ calls[1].kind = "json"
       /\ calls[2].fn = "resume" /\ calls[2].replied /\ calls[2].kind = "json"
  /\ result # None =>
       /\ pc = "done" /\ error = None
       /\ jd_info # None /\ resume_info # None /\ match_info # None /\ advice # None

\* the resume call failed after the JD was extracted: no score, no advice
\* call, no result
C6_Witness ==
  /\ pc = "failed"
  /\ jd_info # None
  /\ Len(calls) = 2
  /\ calls[2].fn = "resume" /\ calls[2].kind = "raise"
  /\ match_info = None
  /\ result = None

\* the advice call failed after the score was computed: no result
AdviceFailureFailsRun ==
  /\ pc = "failed"
  /\ match_info # None
  /\ Len(calls) = 3
  /\ calls[3].kind = "garbage"
  /\ result = None

\* C7: the match of a returned result is determined by the two extracted
\* records alone: it is the scorer's value on result.jd and result.resume
\* under a fixed iteration order, whatever the advice object, the raw texts
\* and the set iteration order of the run are.
C7_MatchFromRecordsOnly ==
  pc = "done" =>
    result[1].match = _compute_match(result[1].jd, result[1].resume, 0)

\* a run whose advice carries a score of its own, with different raw texts
\* and another iteration order, and two matched required skills
C7_Witness ==
  /\ pc = "done"
  /\ result[1].advice["overall_score"].t = "num"
  /\ jd_text # resume_text
  /\ hash_seed # 0
  /\ Len(result[1].match.matched_required_skills) = 2
  /\ result[1].match.overall_score = 70

\* C8: every JSON object, whatever the types of its values, is extracted
\* into a record without an exception.
C8_ExtractionTotal ==
  /\ (Len(calls) >= 1 /\ calls[1].replied /\ calls[1].kind = "json") => jd_info # None
  /\ (Len(calls) >= 2 /\ calls[2].replied /\ calls[2].kind = "json") => resume_info # None

\* C9: every run ends, with a result or a failure.
C9_RunEnds == <>(pc \in {"done", "failed"})

====
